---- MODULE Spec2Model ----
(***************************************************************************)
(* Web Atlas: the index builder (tools/build-indexes.js), the index        *)
(* publisher (tools/copy-indexes.js) and the client renderer (web/app.js). *)
(*                                                                         *)
(* JavaScript values are records [t, v]: a string is its sequence of       *)
(* UTF-16 code units, a number n is <<n>>, undefined is the empty          *)
(* sequence.  A document is the structure JSON.stringify serialises: the   *)
(* serialisation is a fixed, injective rendering of that structure (keys   *)
(* in construction order, 2-space indentation), so two documents are       *)
(* byte-identical exactly when their structures are equal.                 *)
(***************************************************************************)
EXTENDS Integers, Sequences, FiniteSets, TLC

(* ------------------------------------------------------------------ *)
(* Bounds of the model                                                 *)
(* ------------------------------------------------------------------ *)
\* largest number of record directories under sites/ in a generated store
MaxDirs == 3
\* number of builds of the same store snapshot that are followed
MaxRuns == 2

(* ------------------------------------------------------------------ *)
(* JavaScript values                                                   *)
(* ------------------------------------------------------------------ *)
Str(s) == [t |-> "str", v |-> s]
Num(n) == [t |-> "num", v |-> <<n>>]
Undef == [t |-> "undef", v |-> <<>>]

\* ToBoolean: "", 0 and undefined are falsy
Truthy(x) ==
  \/ x.t = "str" /\ x.v /= <<>>
  \/ x.t = "num" /\ x.v /= <<0>>

\* the operands of || the wrong way round
OrSwapped(a, b) == IF Truthy(b) THEN b ELSE a
\* a || b
Or(a, b) == IF Truthy(a) THEN a ELSE b

\* ToString of a value (numbers of the model are single digits)
ToStr(x) ==
  IF x.t = "str" THEN x.v
  ELSE IF x.t = "num" THEN <<48 + x.v[1]>>
  ELSE <<117, 110, 100, 101, 102, 105, 110, 101, 100>>

IsUpper(c) == c \in 65..90
IsLower(c) == c \in 97..122
IsDigit(c) == c \in 48..57

\* primary collation weight of a code unit: punctuation, then digits, then
\* letters without regard to case
Primary(c) ==
  IF IsUpper(c) THEN 200 + (c - 65)
  ELSE IF IsLower(c) THEN 200 + (c - 97)
  ELSE IF IsDigit(c) THEN 100 + (c - 48)
  ELSE c

\* tertiary (case) weight: lower case sorts before upper case
Tertiary(c) == IF IsUpper(c) THEN 1 ELSE 0

\* the weight of a code unit at a collation level
Weight(level, c) == IF level = "primary" THEN Primary(c) ELSE Tertiary(c)

RECURSIVE LexCmp(_, _, _)
\* three-way lexicographic comparison of two sequences at a collation level
LexCmp(level, s, u) ==
  IF s = <<>> /\ u = <<>> THEN 0
  ELSE IF s = <<>> THEN -1
  ELSE IF u = <<>> THEN 1
  ELSE IF Weight(level, Head(s)) < Weight(level, Head(u)) THEN -1
  ELSE IF Weight(level, Head(s)) > Weight(level, Head(u)) THEN 1
  ELSE LexCmp(level, Tail(s), Tail(u))

\* String.prototype.localeCompare on two strings: the default collation,
\* letters compared without case first, case as the tie-break
Collate(s, u) ==
  LET p == LexCmp("primary", s, u)
  IN IF p /= 0 THEN p ELSE LexCmp("tertiary", s, u)

\* a.localeCompare(b): a TypeError when a is no string (a number has no
\* localeCompare method); b is converted with ToString
Thrown == [thrown |-> TRUE, n |-> 0]
Order(n) == [thrown |-> FALSE, n |-> n]
LocaleCompare(a, b) ==
  IF a.t /= "str" THEN Thrown ELSE Order(Collate(a.v, ToStr(b)))

(* ------------------------------------------------------------------ *)
(* The record store: one directory per entity, in readdir order        *)
(* ------------------------------------------------------------------ *)
NoMap == [present |-> FALSE, en |-> Undef]
\* a locale map; en = Undef when the map holds other locales only
LocaleMap(en) == [present |-> TRUE, en |-> en]
NoList == [present |-> FALSE, v |-> <<>>]
List(l) == [present |-> TRUE, v |-> l]

\* code units of the strings the program and the examples name
Exceptional == <<101, 120, 99, 101, 112, 116, 105, 111, 110, 97, 108>>
Solid == <<115, 111, 108, 105, 100>>
Niche == <<110, 105, 99, 104, 101>>
Tools == <<84, 111, 111, 108, 115>>
News == <<78, 101, 119, 115>>
Zeta == <<90, 101, 116, 97>>
Alpha == <<65, 108, 112, 104, 97>>
Beta == <<66, 101, 116, 97>>
UrlU == <<104, 116, 116, 112, 58, 47, 47, 117>>

\* what a record directory holds: no site.yml ("nofile"), a site.yml that
\* yaml.load rejects ("unparseable"), an empty one that loads as undefined
\* ("empty"), a bare scalar ("scalar"), or a mapping ("map")
MapRec(id, url, cat, title, desc, lenses, quality, tags) ==
  [kind |-> "map", id |-> id, url |-> url, category |-> cat, title |-> title,
   description |-> desc, lenses |-> lenses, quality |-> quality, tags |-> tags]
Other(kind) ==
  [kind |-> kind, id |-> Undef, url |-> Undef, category |-> Undef,
   title |-> NoMap, description |-> NoMap, lenses |-> NoList,
   quality |-> Undef, tags |-> NoList]

Ids == {Str(<<97>>), Str(<<98>>)}
Categories == {Str(<<65>>), Str(<<97>>)}
Titles == {NoMap, LocaleMap(Str(<<66>>))}
Qualities == {Str(Exceptional), Str(Solid), Str(Niche)}

\* well-typed valid records
PlainRecords ==
  {MapRec(id, Str(UrlU), c, t, NoMap, NoList, q, NoList) :
     id \in Ids, c \in Categories, t \in Titles, q \in Qualities}

\* records that fail the required-field check, and files that are no mapping
BrokenRecords ==
  {Other("nofile"), Other("unparseable"), Other("empty"), Other("scalar"),
   MapRec(Undef, Str(UrlU), Str(<<65>>), NoMap, NoMap, NoList, Undef, NoList),
   MapRec(Str(<<97>>), Undef, Str(<<65>>), NoMap, NoMap, NoList, Undef, NoList),
   MapRec(Str(<<97>>), Str(UrlU), Undef, NoMap, NoMap, NoList, Undef, NoList),
   MapRec(Str(<<98>>), Str(UrlU), Str(<<>>), NoMap, NoMap, NoList, Undef, NoList)}

\* records with optional fields at their other values, or with a number
\* where the schema wants a string
OddRecords ==
  {MapRec(Str(<<97>>), Str(UrlU), Str(<<65>>), LocaleMap(Undef), LocaleMap(Undef),
          NoList, Undef, NoList),
   MapRec(Str(<<98>>), Str(UrlU), Str(<<65>>), LocaleMap(Str(<<97>>)),
          LocaleMap(Str(<<100>>)), List(<<<<108>>, <<109>>>>), Undef,
          List(<<<<116>>, <<115>>>>)),
   MapRec(Str(<<97>>), Str(UrlU), Str(<<65>>), LocaleMap(Num(5)), NoMap,
          NoList, Str(Solid), NoList),
   MapRec(Str(<<98>>), Str(UrlU), Num(5), NoMap, NoMap, NoList, Str(Solid), NoList)}

RecordSet == PlainRecords \cup BrokenRecords \cup OddRecords

\* the store of the specification's scenario: A, B and C
ScenarioStore ==
  <<MapRec(Str(<<97>>), Str(UrlU), Str(Tools), LocaleMap(Str(Zeta)), NoMap,
           NoList, Str(Exceptional), NoList),
    MapRec(Str(<<98>>), Str(UrlU), Str(Tools), LocaleMap(Str(Alpha)), NoMap,
           NoList, Str(Solid), NoList),
    MapRec(Str(<<99>>), Str(UrlU), Str(News), LocaleMap(Str(Beta)), NoMap,
           NoList, Str(Solid), NoList)>>

\* the records the longer stores are made of: each quality, both
\* categories, a tie on (category, quality, title), a record directory
\* without site.yml, a record without category, a title that is a number
CoreRecords ==
  {MapRec(Str(<<97>>), Str(UrlU), Str(<<65>>), NoMap, NoMap, NoList,
          Str(Exceptional), NoList),
   MapRec(Str(<<98>>), Str(UrlU), Str(<<65>>), NoMap, NoMap, NoList,
          Str(Solid), NoList),
   MapRec(Str(<<97>>), Str(UrlU), Str(<<65>>), LocaleMap(Str(<<66>>)), NoMap,
          NoList, Str(Niche), NoList),
   MapRec(Str(<<98>>), Str(UrlU), Str(<<65>>), LocaleMap(Str(<<66>>)), NoMap,
          NoList, Str(Niche), NoList),
   MapRec(Str(<<98>>), Str(UrlU), Str(<<97>>), NoMap, NoMap, NoList,
          Str(Solid), NoList),
   MapRec(Str(<<97>>), Str(UrlU), Str(<<65>>), LocaleMap(Num(5)), NoMap,
          NoList, Str(Solid), NoList),
   MapRec(Str(<<97>>), Str(UrlU), Undef, NoMap, NoMap, NoList, Undef, NoList),
   Other("nofile")}

\* every store of at most two records of RecordSet, every store of at most
\* MaxDirs records of CoreRecords, and the scenario
Stores ==
  UNION {[1..n -> RecordSet] : n \in {0, 1, 2}}
    \cup UNION {[1..n -> CoreRecords] : n \in 0..MaxDirs}
    \cup {ScenarioStore}

(* ------------------------------------------------------------------ *)
(* Index Builder (tools/build-indexes.js)                              *)
(* ------------------------------------------------------------------ *)
VARIABLES
  store,          \* sites/: the record directories, in readdir order
  dist,           \* dist/indexes/: categories.json and sites-en.json
  bpc,            \* the builder's position: load, sort, cats, writeCat,
                  \* writeSites, done, failed
  idx,            \* the directory siteDirs.forEach visits next
  sites,          \* const sites = []
  categories,     \* const categories = new Map(), in insertion order
  categoriesData, \* const categoriesData
  warnings,       \* directories a console.warn was printed for
  errors,         \* directories a console.error was printed for
  failure,        \* why the build threw: none, sort, write
  run,            \* which build of this store snapshot is running
  prevDist,       \* the output location as the previous build left it
  prevEnd         \* how the previous build ended: none, done, sort, write

bvars == <<store, dist, bpc, idx, sites, categories, categoriesData, warnings,
           errors, failure, run, prevDist, prevEnd>>

\* Index Publisher (tools/copy-indexes.js)
VARIABLES
  web,            \* web/indexes/: the documents the client is served
  ppc,            \* the publisher's position: copy, done, failed
  fileIdx,        \* the element of files that files.forEach visits next
  copiedCount,    \* let copiedCount
  thrown          \* the Error the publisher threw: none, missing, nodest,
                  \* badjson, zero

pvars == <<web, ppc, fileIdx, copiedCount, thrown>>

\* Client Renderer (web/app.js)
VARIABLES
  cpc,              \* loadData's position: fetchCategories, fetchSites,
                    \* loaded, error
  clientCategories, \* let categoriesData (null: an absent document)
  sitesData,        \* let sitesData (null: an absent document)
  view,             \* state.view
  category,         \* state.category
  categoriesDisplay, \* categoriesView.style.display
  sitesDisplay,     \* sitesView.style.display
  loadingDisplay,   \* loadingEl.style.display
  errorDisplay,     \* errorEl.style.display
  errorText,        \* errorEl.textContent
  cards,            \* the category cards of categoriesView.innerHTML
  sitesList,        \* the site cards of sitesList.innerHTML
  categoryTitle,    \* categoryTitle.textContent
  lastEvent         \* the event handled last: none, fetch, select, back

cvars == <<cpc, clientCategories, sitesData, view, category, categoriesDisplay,
           sitesDisplay, loadingDisplay, errorDisplay, errorText, cards,
           sitesList, categoryTitle, lastEvent>>

\* Submission gate (ai/PR_REVIEW_SPEC.md)
VARIABLES
  gpc,            \* the workflow's position: submitted, validated, rejected,
                  \* generated, declined, approved
  submission,     \* the content of the submitted URL-only file
  prFile,         \* sites/<site-id>/site.yml on the pull request's branch
  formatCheck,    \* the format validation of this submission: pending,
                  \* passed, failed
  aiInputs,       \* the contents AI generation was invoked on
  attempt         \* which submission of the pull request this is

gvars == <<gpc, submission, prFile, formatCheck, aiInputs, attempt>>

\* Pending-list submission workflow (.github/submissions.txt)
VARIABLES
  wpc,            \* the workflow run's position: triggered, generating,
                  \* blocked, skipped, committed, declined
  pending,        \* .github/submissions.txt on the pull request's branch
  branchSites,    \* the URLs whose sites/<id>/site.yml is on the branch
  generatedNow,   \* the URLs this run has generated a record for
  cursor,         \* the line of the pending list the run reads next
  processed,      \* per URL, how many times a record was generated for it
  wrun            \* which workflow run of the pull request this is

wvars == <<wpc, pending, branchSites, generatedNow, cursor, processed, wrun>>

\* Migration tool (tools/migrate-to-site-format.js)
VARIABLES
  mpc,            \* the script's position: migrate, done, failed
  legacy,         \* categories/: the legacy category files, in readdir order
  fileAt,         \* the category file categoryFiles.forEach visits
  entryAt,        \* the entry of that file sites.forEach visits
  migrated,       \* sites/: site id |-> the site.yml written under it
  allSites,       \* const allSites
  created         \* the number the last line of the run reports

mvars == <<mpc, legacy, fileAt, entryAt, migrated, allSites, created>>

vars == <<bvars, pvars, cvars, gvars, wvars, mvars>>

(* ------------------------------------------------------------------ *)
(* Documents and the output location                                   *)
(* ------------------------------------------------------------------ *)
\* a file of the output location: absent, a JSON document, or text that
\* is no JSON ("garbage")
NoCategoriesFile == [kind |-> "absent", categories |-> <<>>, totalSites |-> 0]
NoSitesFile == [kind |-> "absent", entries |-> <<>>]
CategoriesFile(data) ==
  [kind |-> "json", categories |-> data.categories, totalSites |-> data.totalSites]
\* the new entries added to the file that is there, instead of replacing it
PatchedSitesFile(entries) ==
  [kind |-> "json", entries |-> dist.sites.entries \o entries]
SitesFile(entries) == [kind |-> "json", entries |-> entries]

\* documents left behind by a build of an earlier store
StaleEntry ==
  [id |-> Str(<<122>>), url |-> Str(UrlU), title |-> Str(<<122>>),
   description |-> Str(<<>>), category |-> Str(<<90>>), lenses |-> <<>>,
   quality |-> Str(Solid), tags |-> NoList]
StaleCategoriesFile ==
  [kind |-> "json", categories |-> <<[name |-> Str(<<90>>), count |-> 1]>>,
   totalSites |-> 1]
StaleSitesFile == [kind |-> "json", entries |-> <<StaleEntry>>]

AbsentDir == [categories |-> NoCategoriesFile, sites |-> NoSitesFile]
StaleDir == [categories |-> StaleCategoriesFile, sites |-> StaleSitesFile]

(* ------------------------------------------------------------------ *)
(* Index Builder: the steps of the script                              *)
(* ------------------------------------------------------------------ *)
\* siteData.title?.en
OptEn(m) == IF m.present THEN m.en ELSE Undef

\* lines 36-49 and 75-77: what happens to one record directory
LoadOutcome(rec) ==
  IF rec.kind = "nofile" THEN "nofile"
  ELSE IF rec.kind = "unparseable" THEN "error"
  ELSE IF rec.kind = "empty" THEN "error"
  ELSE IF ~Truthy(rec.id) \/ ~Truthy(rec.url) \/ ~Truthy(rec.category)
       THEN "invalid"
  ELSE "valid"

\* the projection with every optional field copied as the record has it
SiteEntryNoDefaults(rec) ==
  [id |-> rec.id,
   url |-> rec.url,
   title |-> Or(OptEn(rec.title), rec.id),
   description |-> Or(OptEn(rec.description), Str(<<>>)),
   category |-> rec.category,
   lenses |-> rec.lenses.v,
   quality |-> rec.quality,
   tags |-> rec.tags]
\* lines 52-65: the projection of a record
SiteEntry(rec) ==
  [id |-> rec.id,
   url |-> rec.url,
   title |-> Or(OptEn(rec.title), rec.id),
   description |-> Or(OptEn(rec.description), Str(<<>>)),
   category |-> rec.category,
   lenses |-> IF rec.lenses.present THEN rec.lenses.v ELSE <<>>,
   quality |-> Or(rec.quality, Str(Solid)),
   tags |-> IF rec.tags.present THEN rec.tags ELSE NoList]

\* lines 70-74: categories.set(name, categories.get(name) + 1)
HasCategory(cats, name) == \E k \in 1..Len(cats) : cats[k].name = name
Increment(cats, name) ==
  LET with == IF HasCategory(cats, name) THEN cats
              ELSE Append(cats, [name |-> name, count |-> 0])
  IN [k \in 1..Len(with) |->
        IF with[k].name = name
        THEN [name |-> name, count |-> with[k].count + 1]
        ELSE with[k]]
\* String.prototype.toLowerCase
LowerCase(x) ==
  IF x.t /= "str" THEN x
  ELSE Str([k \in 1..Len(x.v) |-> IF IsUpper(x.v[k]) THEN x.v[k] + 32 ELSE x.v[k]])
\* the counter keyed by the normalised name
CountCategoryFolded(cats, name) == Increment(cats, LowerCase(name))
CountCategory(cats, name) == Increment(cats, name)

\* line 85: qualityOrder[q]
QualityOrder(q) ==
  IF q = Str(Exceptional) THEN Num(0)
  ELSE IF q = Str(Solid) THEN Num(1)
  ELSE IF q = Str(Niche) THEN Num(2)
  ELSE Undef

\* line 86: qualityOrder[q] || 1
QualityRank(q) == Or(QualityOrder(q), Num(1)).v[1]

\* lines 81-89: the comparator of sites.sort
SiteCmp(a, b) ==
  IF a.category /= b.category THEN LocaleCompare(a.category, b.category)
  ELSE LET qualityDiff == QualityRank(a.quality) - QualityRank(b.quality)
       IN IF qualityDiff /= 0 THEN Order(qualityDiff)
          ELSE LocaleCompare(a.title, b.title)

\* the comparator with its operands exchanged
CategoryCmpDescending(a, b) == LocaleCompare(b.name, a.name)
\* line 94: the comparator of the categories list
CategoryCmp(a, b) == LocaleCompare(a.name, b.name)

(* ------------------------------------------------------------------ *)
(* Array.prototype.sort as Node runs it for arrays shorter than 64     *)
(* elements: one natural run is counted (and reversed when strictly    *)
(* descending), the rest is inserted by binary insertion.  The         *)
(* comparator is called with (later element, earlier element); a       *)
(* throwing call ends the sort with that exception.                    *)
(* ------------------------------------------------------------------ *)
\* the comparator of the sort: the sites' (lines 81-89) or the categories'
Compare(which, a, b) ==
  IF which = "sites" THEN SiteCmp(a, b) ELSE CategoryCmp(a, b)

Reverse(s) == [k \in 1..Len(s) |-> s[Len(s) + 1 - k]]

RECURSIVE RunFrom(_, _, _, _)
\* CountAndMakeRun's loop: the length of the run that starts at arr[1]
RunFrom(which, arr, at, desc) ==
  IF at > Len(arr) THEN [thrown |-> FALSE, len |-> at - 1]
  ELSE LET c == Compare(which, arr[at], arr[at - 1])
       IN IF c.thrown THEN [thrown |-> TRUE, len |-> 0]
          ELSE IF (desc /\ c.n >= 0) \/ (~desc /\ c.n < 0)
               THEN [thrown |-> FALSE, len |-> at - 1]
               ELSE RunFrom(which, arr, at + 1, desc)

RECURSIVE BinSearch(_, _, _, _, _)
\* the insertion point of pivot in the sorted prefix arr[left..right-1]
BinSearch(which, arr, pivot, left, right) ==
  IF left >= right THEN [thrown |-> FALSE, pos |-> left]
  ELSE LET mid == left + ((right - left) \div 2)
           c == Compare(which, pivot, arr[mid])
       IN IF c.thrown THEN [thrown |-> TRUE, pos |-> 0]
          ELSE IF c.n < 0 THEN BinSearch(which, arr, pivot, left, mid)
               ELSE BinSearch(which, arr, pivot, mid + 1, right)

RECURSIVE InsertFrom(_, _, _)
\* BinaryInsertionSort: arr[1..start-1] is sorted, insert arr[start..]
InsertFrom(which, arr, start) ==
  IF start > Len(arr) THEN [thrown |-> FALSE, arr |-> arr]
  ELSE LET b == BinSearch(which, arr, arr[start], 1, start)
       IN IF b.thrown THEN [thrown |-> TRUE, arr |-> arr]
          ELSE InsertFrom(which,
                 SubSeq(arr, 1, b.pos - 1) \o <<arr[start]>>
                   \o SubSeq(arr, b.pos, start - 1)
                   \o SubSeq(arr, start + 1, Len(arr)),
                 start + 1)

ArraySort(which, arr) ==
  IF Len(arr) < 2 THEN [thrown |-> FALSE, arr |-> arr]
  ELSE LET first == Compare(which, arr[2], arr[1])
       IN IF first.thrown THEN [thrown |-> TRUE, arr |-> arr]
          ELSE LET desc == first.n < 0
                   natural == RunFrom(which, arr, 3, desc)
               IN IF natural.thrown THEN [thrown |-> TRUE, arr |-> arr]
                  ELSE InsertFrom(which,
                         IF desc
                         THEN Reverse(SubSeq(arr, 1, natural.len))
                                \o SubSeq(arr, natural.len + 1, Len(arr))
                         ELSE arr,
                         natural.len + 1)

SortedSites == ArraySort("sites", sites)
SortedCategories == ArraySort("categories", categories)

\* line 30: the counter map a build starts from
NewCategories == <<>>
NoData == [categories |-> <<>>, totalSites |-> 0]

AfterLoad(k) == IF k > Len(store) THEN "sort" ELSE "load"

BInit ==
  /\ store \in Stores
  /\ dist \in {AbsentDir, StaleDir}
  /\ bpc = AfterLoad(1)
  /\ idx = 1
  /\ sites = <<>>
  /\ categories = NewCategories
  /\ categoriesData = NoData
  /\ warnings = {}
  /\ errors = {}
  /\ failure = "none"
  /\ run = 1
  /\ prevDist = AbsentDir
  /\ prevEnd = "none"

\* lines 36-39: no site.yml in the directory
SkipMissingFile ==
  /\ bpc = "load"
  /\ LoadOutcome(store[idx]) = "nofile"
  /\ warnings' = warnings \cup {idx}
  /\ idx' = idx + 1
  /\ bpc' = AfterLoad(idx + 1)
  /\ UNCHANGED <<store, dist, sites, categories, categoriesData, errors,
                 failure, run, prevDist, prevEnd>>
  /\ UNCHANGED <<pvars, cvars, gvars, wvars, mvars>>

\* lines 41-43 and 75-77: yaml.load throws, or siteData is undefined and
\* reading siteData.id throws; the catch logs and the loop goes on
CatchRecordError ==
  /\ bpc = "load"
  /\ LoadOutcome(store[idx]) = "error"
  /\ errors' = errors \cup {idx}
  /\ idx' = idx + 1
  /\ bpc' = AfterLoad(idx + 1)
  /\ UNCHANGED <<store, dist, sites, categories, categoriesData, warnings,
                 failure, run, prevDist, prevEnd>>
  /\ UNCHANGED <<pvars, cvars, gvars, wvars, mvars>>

\* lines 46-49: a required field is missing
SkipInvalidRecord ==
  /\ bpc = "load"
  /\ LoadOutcome(store[idx]) = "invalid"
  /\ warnings' = warnings \cup {idx}
  /\ idx' = idx + 1
  /\ bpc' = AfterLoad(idx + 1)
  /\ UNCHANGED <<store, dist, sites, categories, categoriesData, errors,
                 failure, run, prevDist, prevEnd>>
  /\ UNCHANGED <<pvars, cvars, gvars, wvars, mvars>>

\* lines 52-74: project the record, push it, count its category
AddSite ==
  /\ bpc = "load"
  /\ LoadOutcome(store[idx]) = "valid"
  /\ sites' = Append(sites, SiteEntry(store[idx]))
  /\ categories' = CountCategory(categories, store[idx].category)
  /\ idx' = idx + 1
  /\ bpc' = AfterLoad(idx + 1)
  /\ UNCHANGED <<store, dist, categoriesData, warnings, errors, failure, run,
                 prevDist, prevEnd>>
  /\ UNCHANGED <<pvars, cvars, gvars, wvars, mvars>>

\* lines 81-89
SortSites ==
  /\ bpc = "sort"
  /\ ~SortedSites.thrown
  /\ sites' = SortedSites.arr
  /\ bpc' = "cats"
  /\ UNCHANGED <<store, dist, idx, categories, categoriesData, warnings,
                 errors, failure, run, prevDist, prevEnd>>
  /\ UNCHANGED <<pvars, cvars, gvars, wvars, mvars>>

\* lines 81-89: the comparator throws and nothing catches it
SortSitesThrows ==
  /\ bpc = "sort"
  /\ SortedSites.thrown
  /\ bpc' = "failed"
  /\ failure' = "sort"
  /\ UNCHANGED <<store, dist, idx, sites, categories, categoriesData,
                 warnings, errors, run, prevDist, prevEnd>>
  /\ UNCHANGED <<pvars, cvars, gvars, wvars, mvars>>

\* lines 92-99.  The comparator of this sort reads only category names, and
\* sites.sort has by then called localeCompare on every category that is
\* not the first of the store, so it never throws here (CategorySortIsSafe)
BuildCategories ==
  /\ bpc = "cats"
  /\ ~SortedCategories.thrown
  /\ categoriesData' =
       [categories |-> SortedCategories.arr, totalSites |-> Len(sites)]
  /\ bpc' = "writeCat"
  /\ UNCHANGED <<store, dist, idx, sites, categories, warnings, errors,
                 failure, run, prevDist, prevEnd>>
  /\ UNCHANGED <<pvars, cvars, gvars, wvars, mvars>>

\* lines 102-105
WriteCategories ==
  /\ bpc = "writeCat"
  /\ dist' = [dist EXCEPT !.categories = CategoriesFile(categoriesData)]
  /\ bpc' = "writeSites"
  /\ UNCHANGED <<store, idx, sites, categories, categoriesData, warnings,
                 errors, failure, run, prevDist, prevEnd>>
  /\ UNCHANGED <<pvars, cvars, gvars, wvars, mvars>>

\* lines 108-111
WriteSites ==
  /\ bpc = "writeSites"
  /\ dist' = [dist EXCEPT !.sites = SitesFile(sites)]
  /\ bpc' = "done"
  /\ UNCHANGED <<store, idx, sites, categories, categoriesData, warnings,
                 errors, failure, run, prevDist, prevEnd>>
  /\ UNCHANGED <<pvars, cvars, gvars, wvars, mvars>>

\* lines 102-111: the output location cannot be written, writeFileSync throws
WriteFails ==
  /\ bpc \in {"writeCat", "writeSites"}
  /\ bpc' = "failed"
  /\ failure' = "write"
  /\ UNCHANGED <<store, dist, idx, sites, categories, categoriesData,
                 warnings, errors, run, prevDist, prevEnd>>
  /\ UNCHANGED <<pvars, cvars, gvars, wvars, mvars>>

\* the script is run again on the unchanged store: every build starts from
\* an empty sites array and a new counter map (lines 29-30)
Rerun ==
  /\ bpc \in {"done", "failed"}
  /\ run < MaxRuns
  /\ run' = run + 1
  /\ prevDist' = dist
  /\ prevEnd' = IF bpc = "done" THEN "done" ELSE failure
  /\ bpc' = AfterLoad(1)
  /\ idx' = 1
  /\ sites' = <<>>
  /\ categories' = NewCategories
  /\ categoriesData' = NoData
  /\ warnings' = {}
  /\ errors' = {}
  /\ failure' = "none"
  /\ UNCHANGED <<store, dist>>
  /\ UNCHANGED <<pvars, cvars, gvars, wvars, mvars>>

BNext ==
  \/ SkipMissingFile
  \/ CatchRecordError
  \/ SkipInvalidRecord
  \/ AddSite
  \/ SortSites
  \/ SortSitesThrows
  \/ BuildCategories
  \/ WriteCategories
  \/ WriteSites
  \/ WriteFails
  \/ Rerun

\* the builder before it is started
BIdle ==
  /\ store = <<>>
  /\ bpc = "idle"
  /\ idx = 1
  /\ sites = <<>>
  /\ categories = NewCategories
  /\ categoriesData = NoData
  /\ warnings = {}
  /\ errors = {}
  /\ failure = "none"
  /\ run = 1
  /\ prevDist = AbsentDir
  /\ prevEnd = "none"

(* ------------------------------------------------------------------ *)
(* Index Publisher (tools/copy-indexes.js)                             *)
(* ------------------------------------------------------------------ *)
GarbageCategoriesFile ==
  [kind |-> "garbage", categories |-> <<>>, totalSites |-> 0]
GarbageSitesFile == [kind |-> "garbage", entries |-> <<>>]
\* the documents of a build of the scenario's store
FreshCategoriesFile ==
  [kind |-> "json",
   categories |-> <<[name |-> Str(News), count |-> 1],
                    [name |-> Str(Tools), count |-> 2]>>,
   totalSites |-> 3]
FreshSitesFile ==
  [kind |-> "json",
   entries |-> <<SiteEntry(ScenarioStore[3]), SiteEntry(ScenarioStore[2]),
                 SiteEntry(ScenarioStore[1])>>]

\* line 138: const files
Files == <<"categories", "sites">>

\* what the build-output location and the serve location may hold when the
\* publisher starts
SourceDirs ==
  [categories : {NoCategoriesFile, FreshCategoriesFile, StaleCategoriesFile,
                 GarbageCategoriesFile},
   sites : {NoSitesFile, FreshSitesFile, StaleSitesFile, GarbageSitesFile}]
ServeDirs ==
  [categories : {NoCategoriesFile, StaleCategoriesFile},
   sites : {NoSitesFile, StaleSitesFile}]

PIdle ==
  /\ ppc = "idle"
  /\ fileIdx = 1
  /\ copiedCount = 0
  /\ thrown = "none"

PInit ==
  /\ web \in ServeDirs
  /\ ppc = "copy"
  /\ fileIdx = 1
  /\ copiedCount = 0
  /\ thrown = "none"

\* the file of a location that is not there
NoFile(file) == IF file = "categories" THEN NoCategoriesFile ELSE NoSitesFile

Copying(file) == ppc = "copy" /\ fileIdx <= Len(Files) /\ Files[fileIdx] = file

\* a copy that leaves a destination file that is already there alone
CopyFileKeepsExisting ==
  \E file \in {"categories", "sites"} :
    /\ Copying(file)
    /\ dist[file].kind = "json"
    /\ web' = IF web[file].kind = "absent"
              THEN [web EXCEPT ![file] = dist[file]]
              ELSE web
    /\ copiedCount' = copiedCount + 1
    /\ fileIdx' = fileIdx + 1
    /\ UNCHANGED <<ppc, thrown>>
    /\ UNCHANGED <<bvars, cvars, gvars, wvars, mvars>>

\* lines 145-161: the source is there, the copy lands and parses
CopyFile ==
  \E file \in {"categories", "sites"} :
    /\ Copying(file)
    /\ dist[file].kind = "json"
    /\ web' = [web EXCEPT ![file] = dist[file]]
    /\ copiedCount' = copiedCount + 1
    /\ fileIdx' = fileIdx + 1
    /\ UNCHANGED <<ppc, thrown>>
    /\ UNCHANGED <<bvars, cvars, gvars, wvars, mvars>>

\* lines 145-161: the source is there and is copied, but is no JSON
CopyInvalidJson ==
  \E file \in {"categories", "sites"} :
    /\ Copying(file)
    /\ dist[file].kind = "garbage"
    /\ web' = [web EXCEPT ![file] = dist[file]]
    /\ copiedCount' = copiedCount + 1
    /\ ppc' = "failed"
    /\ thrown' = "badjson"
    /\ UNCHANGED fileIdx
    /\ UNCHANGED <<bvars, cvars, gvars, wvars, mvars>>

\* lines 145-153: copyFileSync returns but the destination is not there
\* when existsSync looks for it
CopyLost ==
  \E file \in {"categories", "sites"} :
    /\ Copying(file)
    /\ dist[file].kind /= "absent"
    /\ web' = [web EXCEPT ![file] = NoFile(file)]
    /\ copiedCount' = copiedCount + 1
    /\ ppc' = "failed"
    /\ thrown' = "nodest"
    /\ UNCHANGED fileIdx
    /\ UNCHANGED <<bvars, cvars, gvars, wvars, mvars>>

\* a missing source is passed over and the loop goes on
SkipMissingSource ==
  \E file \in {"categories", "sites"} :
    /\ Copying(file)
    /\ dist[file].kind = "absent"
    /\ fileIdx' = fileIdx + 1
    /\ UNCHANGED <<web, ppc, copiedCount, thrown>>
    /\ UNCHANGED <<bvars, cvars, gvars, wvars, mvars>>

\* lines 162-164: the source is missing
CopyMissingSource ==
  \E file \in {"categories", "sites"} :
    /\ Copying(file)
    /\ dist[file].kind = "absent"
    /\ ppc' = "failed"
    /\ thrown' = "missing"
    /\ UNCHANGED <<web, fileIdx, copiedCount>>
    /\ UNCHANGED <<bvars, cvars, gvars, wvars, mvars>>

\* lines 167-171: after the loop
PublishEnd ==
  /\ ppc = "copy"
  /\ fileIdx > Len(Files)
  /\ ppc' = IF copiedCount = 0 THEN "failed" ELSE "done"
  /\ thrown' = IF copiedCount = 0 THEN "zero" ELSE "none"
  /\ UNCHANGED <<web, fileIdx, copiedCount>>
  /\ UNCHANGED <<bvars, cvars, gvars, wvars, mvars>>

PNext ==
  \/ CopyFile
  \/ CopyInvalidJson
  \/ CopyLost
  \/ CopyMissingSource
  \/ PublishEnd

(* ------------------------------------------------------------------ *)
(* Client Renderer (web/app.js)                                        *)
(* ------------------------------------------------------------------ *)
\* line 17 and line 56, line 84: the values of state.view
CategoriesView == "categories"
SitesView == "sites"

\* the value of an attribute written as name="${s}": the markup's value
\* ends at the first double quote of s
RECURSIVE AttrValue(_)
AttrValue(s) ==
  IF s = <<>> \/ Head(s) = 34 THEN <<>> ELSE <<Head(s)>> \o AttrValue(Tail(s))

\* card.dataset.category of a card rendered for cat
DatasetCategory(cat) ==
  IF cat.name.t = "str" THEN Str(AttrValue(cat.name.v))
  ELSE Str(ToStr(cat.name))

\* what a template literal or textContent makes of a value
TextOf(x) == IF x.t = "undef" THEN <<>> ELSE ToStr(x)

\* the serialisation of a text node: &, < and > become character
\* references, a double quote stays as it is
EscapeUnit(c) ==
  IF c = 38 THEN <<38, 97, 109, 112, 59>>
  ELSE IF c = 60 THEN <<38, 108, 116, 59>>
  ELSE IF c = 62 THEN <<38, 103, 116, 59>>
  ELSE <<c>>
RECURSIVE EscapeText(_)
EscapeText(s) ==
  IF s = <<>> THEN <<>> ELSE EscapeUnit(Head(s)) \o EscapeText(Tail(s))

\* lines 114-118: escapeHtml
EscapeHtml(x) == EscapeText(TextOf(x))

\* lines 59-64: one card per entry of categoriesData.categories; attribute
\* is the text put between the quotes of data-category, heading the text
\* put into the h3
RenderedCards(data) ==
  [k \in 1..Len(data.categories) |->
     [category |-> DatasetCategory(data.categories[k]),
      name |-> data.categories[k].name,
      attribute |-> ToStr(data.categories[k].name),
      heading |-> EscapeHtml(data.categories[k].name),
      count |-> data.categories[k].count]]

\* lines 92-104: the texts put into one site card
RenderedSite(site) ==
  [href |-> EscapeHtml(site.url),
   title |-> EscapeHtml(site.title),
   url |-> EscapeHtml(site.url),
   description |-> EscapeHtml(site.description),
   qualityClass |-> EscapeHtml(site.quality),
   quality |-> EscapeHtml(site.quality),
   lenses |-> [j \in 1..Len(site.lenses) |-> EscapeText(site.lenses[j])]]
\* lines 91-105: categorySites.map(...)
RenderedSites(entries) ==
  [k \in 1..Len(entries) |-> RenderedSite(entries[k])]

RECURSIVE FilterStartsWith(_, _)
\* the entries whose category begins with categoryName
FilterStartsWith(entries, categoryName) ==
  IF entries = <<>> THEN <<>>
  ELSE IF /\ Len(TextOf(Head(entries).category)) >= Len(categoryName.v)
          /\ SubSeq(TextOf(Head(entries).category), 1, Len(categoryName.v))
               = categoryName.v
       THEN <<Head(entries)>> \o FilterStartsWith(Tail(entries), categoryName)
       ELSE FilterStartsWith(Tail(entries), categoryName)

RECURSIVE Filter(_, _)
\* line 89: sitesData.filter(site => site.category === categoryName)
Filter(entries, categoryName) ==
  IF entries = <<>> THEN <<>>
  ELSE IF Head(entries).category = categoryName
       THEN <<Head(entries)>> \o Filter(Tail(entries), categoryName)
       ELSE Filter(Tail(entries), categoryName)

\* documents of a build whose records carry markup characters in their
\* texts: the categories <b>& and a"<b
MarkupName == <<60, 98, 62, 38>>
QuotedName == <<97, 34, 60, 98>>
MarkupEntry(cat) ==
  [id |-> Str(<<109>>), url |-> Str(<<104, 116, 116, 112, 58, 47, 47, 117, 47, 63, 97, 38, 98>>), title |-> Str(<<60, 105, 62, 84>>),
   description |-> Str(<<120, 62, 121>>), category |-> Str(cat),
   lenses |-> <<<<60, 108, 62>>>>, quality |-> Str(<<115, 111, 60, 108, 105, 100>>), tags |-> NoList]
MarkupCategoriesFile ==
  [kind |-> "json",
   categories |-> <<[name |-> Str(MarkupName), count |-> 1],
                    [name |-> Str(QuotedName), count |-> 1]>>,
   totalSites |-> 2]
MarkupSitesFile ==
  [kind |-> "json",
   entries |-> <<MarkupEntry(MarkupName), MarkupEntry(QuotedName)>>]

\* the documents the client may be served: what the publisher copied from
\* a build, or a missing document
ClientDirs ==
  [categories : {NoCategoriesFile, FreshCategoriesFile, StaleCategoriesFile,
                 MarkupCategoriesFile},
   sites : {NoSitesFile, FreshSitesFile, StaleSitesFile, MarkupSitesFile}]

CIdle ==
  /\ cpc = "idle"
  /\ clientCategories = NoCategoriesFile
  /\ sitesData = NoSitesFile
  /\ view = CategoriesView
  /\ category = Undef
  /\ categoriesDisplay = "css"
  /\ sitesDisplay = "css"
  /\ loadingDisplay = "css"
  /\ errorDisplay = "css"
  /\ errorText = ""
  /\ cards = <<>>
  /\ sitesList = <<>>
  /\ categoryTitle = Undef
  /\ lastEvent = "none"

\* lines 11-19 and 22-30: the script has run up to the first await
CInit ==
  /\ cpc = "fetchCategories"
  /\ clientCategories = NoCategoriesFile
  /\ sitesData = NoSitesFile
  /\ view = CategoriesView
  /\ category = Undef
  /\ categoriesDisplay = "css"
  /\ sitesDisplay = "css"
  /\ loadingDisplay = "block"
  /\ errorDisplay = "css"
  /\ errorText = ""
  /\ cards = <<>>
  /\ sitesList = <<>>
  /\ categoryTitle = Undef
  /\ lastEvent = "none"

\* lines 30-35: the categories response is ok and parses; the sites fetch
\* is issued
FetchCategoriesOk ==
  /\ cpc = "fetchCategories"
  /\ web.categories.kind = "json"
  /\ clientCategories' = web.categories
  /\ cpc' = "fetchSites"
  /\ lastEvent' = "fetch"
  /\ UNCHANGED <<sitesData, view, category, categoriesDisplay, sitesDisplay,
                 loadingDisplay, errorDisplay, errorText, cards, sitesList,
                 categoryTitle>>
  /\ UNCHANGED <<bvars, pvars, gvars, wvars, mvars>>

\* lines 41-46: the catch block
ShowError(text) ==
  /\ loadingDisplay' = "none"
  /\ errorText' = text
  /\ errorDisplay' = "block"
  /\ cpc' = "error"
  /\ lastEvent' = "fetch"

\* a failed categories fetch that does not end loadData: the sites fetch
\* is issued all the same
FetchCategoriesFailsAndGoesOn ==
  /\ cpc = "fetchCategories"
  /\ cpc' = "fetchSites"
  /\ lastEvent' = "fetch"
  /\ UNCHANGED <<clientCategories, sitesData, view, category,
                 categoriesDisplay, sitesDisplay, loadingDisplay, errorDisplay,
                 errorText, cards, sitesList, categoryTitle>>
  /\ UNCHANGED <<bvars, pvars, gvars, wvars, mvars>>

\* lines 30-32, 41-46: the categories fetch rejects, or the response is
\* not ok, or its body is no JSON
FetchCategoriesFails ==
  /\ cpc = "fetchCategories"
  /\ ShowError("categories")
  /\ UNCHANGED <<clientCategories, sitesData, view, category,
                 categoriesDisplay, sitesDisplay, cards, sitesList,
                 categoryTitle>>
  /\ UNCHANGED <<bvars, pvars, gvars, wvars, mvars>>

\* lines 35-37, 41-46: the same for the sites fetch
FetchSitesFails ==
  /\ cpc = "fetchSites"
  /\ ShowError("sites")
  /\ UNCHANGED <<clientCategories, sitesData, view, category,
                 categoriesDisplay, sitesDisplay, cards, sitesList,
                 categoryTitle>>
  /\ UNCHANGED <<bvars, pvars, gvars, wvars, mvars>>

\* the categories view shown with state.category left as it is
ShowCategoriesViewKeepsCategory ==
  /\ categoriesDisplay' = "grid"
  /\ sitesDisplay' = "none"
  /\ view' = CategoriesView
  /\ category' = category
\* lines 50-57: renderCategories up to the read of categoriesData
ShowCategoriesView ==
  /\ categoriesDisplay' = "grid"
  /\ sitesDisplay' = "none"
  /\ view' = CategoriesView
  /\ category' = Undef

\* lines 50-73: renderCategories; with categoriesData still null the read
\* of categoriesData.categories throws after the assignments of lines 54-57
RenderCategories(data) ==
  /\ ShowCategoriesView
  /\ cards' = IF data.kind = "json" THEN RenderedCards(data) ELSE cards

\* lines 35-40: the sites response is ok and parses; renderCategories
FetchSitesOk ==
  /\ cpc = "fetchSites"
  /\ web.sites.kind = "json"
  /\ sitesData' = web.sites
  /\ loadingDisplay' = "none"
  /\ RenderCategories(clientCategories)
  /\ cpc' = "loaded"
  /\ lastEvent' = "fetch"
  /\ UNCHANGED <<clientCategories, errorDisplay, errorText, sitesList,
                 categoryTitle>>
  /\ UNCHANGED <<bvars, pvars, gvars, wvars, mvars>>

\* lines 68-71 and 76-106: a click on a visible card; showCategory.  With
\* sitesData still null, sitesData.filter throws after the assignments of
\* lines 82-87
ClickCard ==
  \E k \in 1..Len(cards) :
    /\ categoriesDisplay = "grid"
    /\ categoriesDisplay' = "none"
    /\ sitesDisplay' = "block"
    /\ view' = SitesView
    /\ category' = cards[k].category
    /\ categoryTitle' = cards[k].category
    /\ sitesList' = IF sitesData.kind = "json"
                    THEN RenderedSites(Filter(sitesData.entries,
                                              cards[k].category))
                    ELSE sitesList
    /\ lastEvent' = "select"
    /\ UNCHANGED <<cpc, clientCategories, sitesData, loadingDisplay,
                   errorDisplay, errorText, cards>>
    /\ UNCHANGED <<bvars, pvars, gvars, wvars, mvars>>

\* lines 109-111: a click on the back button
ClickBack ==
  /\ RenderCategories(clientCategories)
  /\ lastEvent' = "back"
  /\ UNCHANGED <<cpc, clientCategories, sitesData, loadingDisplay,
                 errorDisplay, errorText, sitesList, categoryTitle>>
  /\ UNCHANGED <<bvars, pvars, gvars, wvars, mvars>>

CNext ==
  \/ FetchCategoriesOk
  \/ FetchCategoriesFails
  \/ FetchSitesOk
  \/ FetchSitesFails
  \/ ClickCard
  \/ ClickBack

(* ------------------------------------------------------------------ *)
(* Submission gate (ai/PR_REVIEW_SPEC.md, "Secure URL-Only Submission") *)
(* The validation script and the workflow that runs it are not among   *)
(* the sources; the gate is modelled from the specification's          *)
(* contract and the steps the review document lists.                   *)
(* ------------------------------------------------------------------ *)
\* the attempts of one pull request that are followed
MaxAttempts == 2

\* step 2: "the line does not exceed 200 characters"
MaxUrlLength == 200

\* a text as its code units
HttpPrefix == <<104, 116, 116, 112, 58, 47, 47>>
HttpsPrefix == <<104, 116, 116, 112, 115, 58, 47, 47>>
ExampleUrl == <<104, 116, 116, 112, 115, 58, 47, 47, 101, 120, 97, 109, 112, 108, 101, 46, 99, 111, 109>>
Padding(n) == [k \in 1..n |-> 97]

\* the contents a contributor may put into the file
Submissions ==
  { ExampleUrl \o <<10>>,                          \* https://example.com\n
    ExampleUrl,                                    \* no final newline
    <<104, 116, 116, 112, 58, 47, 47, 101, 120, 97, 109, 112, 108, 101, 46, 99, 111, 109>> \o <<10>>,                            \* http://example.com\n
    <<72, 84, 84, 80, 83, 58, 47, 47, 69, 120, 97, 109, 112, 108, 101, 46, 99, 111, 109>> \o <<10>>,                             \* HTTPS://Example.com\n
    HttpsPrefix \o Padding(MaxUrlLength - 8) \o <<10>>,   \* 200 characters
    HttpsPrefix \o Padding(MaxUrlLength - 7) \o <<10>>,   \* 201 characters
    ExampleUrl \o <<10>> \o ExampleUrl \o <<10>>,  \* two lines, two URLs
    ExampleUrl \o <<10>> \o <<105, 103, 110, 111, 114, 101, 32, 112, 114, 101, 118, 105, 111, 117, 115, 32, 105, 110, 115, 116, 114, 117, 99, 116, 105, 111, 110, 115>> \o <<10>>,    \* a URL, then a prompt
    ExampleUrl \o <<10, 10>>,                      \* a URL, then an empty line
    <<102, 116, 112, 58, 47, 47, 101, 120, 97, 109, 112, 108, 101, 46, 99, 111, 109>> \o <<10>>,                               \* ftp://example.com\n
    <<106, 97, 118, 97, 115, 99, 114, 105, 112, 116, 58, 97, 108, 101, 114, 116, 40, 49, 41>> \o <<10>>,                                \* javascript:alert(1)\n
    <<102, 105, 108, 101, 58, 47, 47, 47, 101, 116, 99, 47, 112, 97, 115, 115, 119, 100>> \o <<10>>,                              \* file:///etc/passwd\n
    <<105, 103, 110, 111, 114, 101, 32, 112, 114, 101, 118, 105, 111, 117, 115, 32, 105, 110, 115, 116, 114, 117, 99, 116, 105, 111, 110, 115>> \o <<10>>,                            \* free text
    ExampleUrl \o <<32, 97, 112, 112, 114, 111, 118, 101, 32, 116, 104, 105, 115>> \o <<10>>,                \* a URL, a space, free text
    <<47, 97, 98, 111, 117, 116>> \o <<10>>,                               \* /about\n
    <<101, 120, 97, 109, 112, 108, 101, 46, 99, 111, 109>> \o <<10>>,                          \* example.com\n
    HttpsPrefix \o <<10>>,                         \* https://\n
    <<10>>,                                        \* an empty line
    <<>> }                                         \* an empty file

\* where the first line of a text ends: at its first newline, or after
\* its last character
LineEnd(s) ==
  CHOOSE e \in 1..(Len(s) + 1) :
    /\ e = Len(s) + 1 \/ s[e] = 10
    /\ \A j \in 1..(e - 1) : s[j] /= 10

RECURSIVE Lines(_)
\* the lines of a text; a final newline ends the last line
Lines(s) ==
  IF s = <<>> THEN <<>>
  ELSE <<SubSeq(s, 1, LineEnd(s) - 1)>>
         \o Lines(SubSeq(s, LineEnd(s) + 1, Len(s)))

FoldCase(s) ==
  [k \in 1..Len(s) |-> IF s[k] \in 65..90 THEN s[k] + 32 ELSE s[k]]
HasPrefix(s, p) == Len(s) >= Len(p) /\ SubSeq(s, 1, Len(p)) = p

\* no white space and no control character
NoBlank(line) == {k \in 1..Len(line) : line[k] <= 32 \/ line[k] = 127} = {}

\* step 2: "the line is a valid HTTP/HTTPS URL": an absolute URL, scheme
\* http or https, with a host, no white space and no control character
ValidUrlAnyScheme(line) ==
  /\ \E k \in 1..Len(line) : line[k] = 58
  /\ NoBlank(line)
ValidUrl(line) ==
  /\ \E p \in {HttpPrefix, HttpsPrefix} :
       /\ HasPrefix(FoldCase(line), p)
       /\ Len(line) > Len(p)
       /\ line[Len(p) + 1] \notin {35, 47, 58, 63, 64}
  /\ NoBlank(line)

\* step 2: the format validation of a submitted file
FirstLineAccepted(content) ==
  /\ Lines(content) /= <<>>
  /\ ValidUrl(Lines(content)[1])
  /\ Len(Lines(content)[1]) <= MaxUrlLength
Accepts(content) ==
  /\ Len(Lines(content)) = 1
  /\ ValidUrl(Lines(content)[1])
  /\ Len(Lines(content)[1]) <= MaxUrlLength

\* the file as step 4 commits it
UrlFile(content) == [kind |-> "url", text |-> content]
GeneratedFile(content) == [kind |-> "record", text |-> Lines(content)[1]]

GIdle ==
  /\ gpc = "idle"
  /\ submission = <<>>
  /\ prFile = UrlFile(<<>>)
  /\ formatCheck = "pending"
  /\ aiInputs = {}
  /\ attempt = 1

\* step 1: the pull request holds the URL-only file
GInit ==
  /\ gpc = "submitted"
  /\ submission \in Submissions
  /\ prFile = UrlFile(submission)
  /\ formatCheck = "pending"
  /\ aiInputs = {}
  /\ attempt = 1

\* step 2: the validation passes
ValidationPasses ==
  /\ gpc = "submitted"
  /\ Accepts(submission)
  /\ formatCheck' = "passed"
  /\ gpc' = "validated"
  /\ UNCHANGED <<submission, prFile, aiInputs, attempt>>
  /\ UNCHANGED <<bvars, pvars, cvars, wvars, mvars>>

\* step 2: the validation fails and the check of the pull request is red
ValidationFails ==
  /\ gpc = "submitted"
  /\ ~Accepts(submission)
  /\ formatCheck' = "failed"
  /\ gpc' = "rejected"
  /\ UNCHANGED <<submission, prFile, aiInputs, attempt>>
  /\ UNCHANGED <<bvars, pvars, cvars, wvars, mvars>>

\* AI generation started on whatever was submitted, validated or not
GenerateUnvalidated ==
  /\ gpc \in {"submitted", "validated"}
  /\ aiInputs' = aiInputs \cup {submission}
  /\ gpc' = "generated"
  /\ UNCHANGED <<submission, prFile, formatCheck, attempt>>
  /\ UNCHANGED <<bvars, pvars, cvars, wvars, mvars>>

\* step 3: "if validation passes, the AI" generates the record
Generate ==
  /\ gpc = "validated"
  /\ aiInputs' = aiInputs \cup {submission}
  /\ gpc' = "generated"
  /\ UNCHANGED <<submission, prFile, formatCheck, attempt>>
  /\ UNCHANGED <<bvars, pvars, cvars, wvars, mvars>>

\* step 3: the AI rejects the site, or what it generated fails the schema
GenerateDeclines ==
  /\ gpc = "validated"
  /\ aiInputs' = aiInputs \cup {submission}
  /\ gpc' = "declined"
  /\ UNCHANGED <<submission, prFile, formatCheck, attempt>>
  /\ UNCHANGED <<bvars, pvars, cvars, wvars, mvars>>

\* step 4: the complete site.yml is committed and the PR approved
CommitAndApprove ==
  /\ gpc = "generated"
  /\ prFile' = GeneratedFile(submission)
  /\ gpc' = "approved"
  /\ UNCHANGED <<submission, formatCheck, aiInputs, attempt>>
  /\ UNCHANGED <<bvars, pvars, cvars, wvars, mvars>>

\* the contributor pushes another content to the same pull request
Resubmit ==
  /\ gpc \in {"rejected", "declined"}
  /\ attempt < MaxAttempts
  /\ \E content \in Submissions :
       /\ submission' = content
       /\ prFile' = UrlFile(content)
  /\ formatCheck' = "pending"
  /\ gpc' = "submitted"
  /\ attempt' = attempt + 1
  /\ UNCHANGED aiInputs
  /\ UNCHANGED <<bvars, pvars, cvars, wvars, mvars>>

GNext ==
  \/ ValidationPasses
  \/ ValidationFails
  \/ Generate
  \/ GenerateDeclines
  \/ CommitAndApprove
  \/ Resubmit

(* ------------------------------------------------------------------ *)
(* Pending-list submission workflow (.github/submissions.txt)          *)
(* ------------------------------------------------------------------ *)
MaxWorkflowRuns == 3
MaxPending == 2

AnotherUrl == <<104, 116, 116, 112, 115, 58, 47, 47, 97, 110, 111, 116, 104, 101, 114, 45, 115, 105, 116, 101, 46, 111, 114, 103>>
FreeText == <<105, 103, 110, 111, 114, 101, 32, 112, 114, 101, 118, 105, 111, 117, 115>>

\* the lines a contributor may put into the pending list: the two URLs of
\* the example, a third one, free text, and a URL of 201 characters
PendingLines ==
  {ExampleUrl, AnotherUrl, HttpPrefix \o <<117>>, FreeText,
   HttpsPrefix \o Padding(MaxUrlLength - 7)}

\* step 1: the file holds one URL per line; no line is there twice
PendingLists ==
  {l \in UNION {[1..n -> PendingLines] : n \in 0..MaxPending} :
     \A i, j \in 1..Len(l) : i /= j => l[i] /= l[j]}

NoPendingFile == [exists |-> FALSE, lines |-> <<>>]
PendingFile(l) == [exists |-> TRUE, lines |-> l]

\* step 2: every line is a valid HTTP/HTTPS URL of at most 200 characters
AcceptsList(l) ==
  \A k \in 1..Len(l) : ValidUrl(l[k]) /\ Len(l[k]) <= MaxUrlLength

\* "no URLs remain in .github/submissions.txt"
NoUrlsRemain == ~pending.exists \/ pending.lines = <<>>

RECURSIVE Without(_, _)
\* the lines of l that are not in done, in their order
Without(l, done) ==
  IF l = <<>> THEN <<>>
  ELSE IF Head(l) \in done THEN Without(Tail(l), done)
       ELSE <<Head(l)>> \o Without(Tail(l), done)

\* step 4 with the list left as the contributor wrote it
Uncleaned(file, done) == file
\* step 4: the list without the processed URLs; the file is deleted when
\* no line is left
Cleaned(file, done) ==
  IF Without(file.lines, done) = <<>> THEN NoPendingFile
  ELSE PendingFile(Without(file.lines, done))

WIdle ==
  /\ wpc = "idle"
  /\ pending = NoPendingFile
  /\ branchSites = {}
  /\ generatedNow = {}
  /\ cursor = 1
  /\ processed = [u \in PendingLines |-> 0]
  /\ wrun = 1

\* step 1: the pull request holds the pending list and the workflow runs
WInit ==
  /\ wpc = "triggered"
  /\ pending \in {NoPendingFile} \cup {PendingFile(l) : l \in PendingLists}
  /\ branchSites = {}
  /\ generatedNow = {}
  /\ cursor = 1
  /\ processed = [u \in PendingLines |-> 0]
  /\ wrun = 1

\* "subsequent workflow runs skip processing if no URLs remain"
SkipProcessing ==
  /\ wpc = "triggered"
  /\ NoUrlsRemain
  /\ wpc' = "skipped"
  /\ UNCHANGED <<pending, branchSites, generatedNow, cursor, processed, wrun>>
  /\ UNCHANGED <<bvars, pvars, cvars, gvars, mvars>>

\* step 2: the validation passes and the AI starts on the list
ListValidationPasses ==
  /\ wpc = "triggered"
  /\ ~NoUrlsRemain
  /\ AcceptsList(pending.lines)
  /\ wpc' = "generating"
  /\ cursor' = 1
  /\ generatedNow' = {}
  /\ UNCHANGED <<pending, branchSites, processed, wrun>>
  /\ UNCHANGED <<bvars, pvars, cvars, gvars, mvars>>

\* step 2: a line fails the validation and the check of the pull request
\* is red
ListValidationFails ==
  /\ wpc = "triggered"
  /\ ~NoUrlsRemain
  /\ ~AcceptsList(pending.lines)
  /\ wpc' = "blocked"
  /\ UNCHANGED <<pending, branchSites, generatedNow, cursor, processed, wrun>>
  /\ UNCHANGED <<bvars, pvars, cvars, gvars, mvars>>

\* step 3: the AI generates the record of the next URL
GenerateRecord ==
  /\ wpc = "generating"
  /\ cursor <= Len(pending.lines)
  /\ generatedNow' = generatedNow \cup {pending.lines[cursor]}
  /\ processed' = [processed EXCEPT ![pending.lines[cursor]] = @ + 1]
  /\ cursor' = cursor + 1
  /\ UNCHANGED <<wpc, pending, branchSites, wrun>>
  /\ UNCHANGED <<bvars, pvars, cvars, gvars, mvars>>

\* step 3: the AI rejects the site of the next URL, or what it generated
\* fails the schema
RecordDeclined ==
  /\ wpc = "generating"
  /\ cursor <= Len(pending.lines)
  /\ cursor' = cursor + 1
  /\ UNCHANGED <<wpc, pending, branchSites, generatedNow, processed, wrun>>
  /\ UNCHANGED <<bvars, pvars, cvars, gvars, mvars>>

\* step 4: the generated records are committed, the processed URLs
\* removed from the list, the pull request approved
CommitAndCleanup ==
  /\ wpc = "generating"
  /\ cursor > Len(pending.lines)
  /\ generatedNow /= {}
  /\ branchSites' = branchSites \cup generatedNow
  /\ pending' = Cleaned(pending, generatedNow)
  /\ wpc' = "committed"
  /\ UNCHANGED <<generatedNow, cursor, processed, wrun>>
  /\ UNCHANGED <<bvars, pvars, cvars, gvars, mvars>>

\* step 4: no record was generated, nothing is committed
NothingGenerated ==
  /\ wpc = "generating"
  /\ cursor > Len(pending.lines)
  /\ generatedNow = {}
  /\ wpc' = "declined"
  /\ UNCHANGED <<pending, branchSites, generatedNow, cursor, processed, wrun>>
  /\ UNCHANGED <<bvars, pvars, cvars, gvars, mvars>>

\* the workflow runs again on the pull request: after the automatic
\* commit, or when it is started anew
RunAgain ==
  /\ wpc \in {"skipped", "blocked", "committed", "declined"}
  /\ wrun < MaxWorkflowRuns
  /\ wrun' = wrun + 1
  /\ wpc' = "triggered"
  /\ generatedNow' = {}
  /\ cursor' = 1
  /\ UNCHANGED <<pending, branchSites, processed>>
  /\ UNCHANGED <<bvars, pvars, cvars, gvars, mvars>>

WNext ==
  \/ SkipProcessing
  \/ ListValidationPasses
  \/ ListValidationFails
  \/ GenerateRecord
  \/ RecordDeclined
  \/ CommitAndCleanup
  \/ NothingGenerated
  \/ RunAgain

(* ------------------------------------------------------------------ *)
(* Migration tool (tools/migrate-to-site-format.js)                    *)
(* ------------------------------------------------------------------ *)
MaxLegacyFiles == 2
MaxEntries == 2

IsSlugUnit(c) == IsLower(c) \/ IsDigit(c)

RECURSIVE SkipOthers(_)
\* s without its leading code units outside [a-z0-9]
SkipOthers(s) ==
  IF s = <<>> \/ IsSlugUnit(Head(s)) THEN s ELSE SkipOthers(Tail(s))

RECURSIVE Hyphenate(_)
\* line 16: .replace(/[^a-z0-9]+/g, '-')
Hyphenate(s) ==
  IF s = <<>> THEN <<>>
  ELSE IF IsSlugUnit(Head(s)) THEN <<Head(s)>> \o Hyphenate(Tail(s))
  ELSE <<45>> \o Hyphenate(SkipOthers(s))

RECURSIVE TrimLeft(_)
TrimLeft(s) == IF s /= <<>> /\ Head(s) = 45 THEN TrimLeft(Tail(s)) ELSE s
RECURSIVE TrimRight(_)
TrimRight(s) ==
  IF s /= <<>> /\ s[Len(s)] = 45 THEN TrimRight(SubSeq(s, 1, Len(s) - 1))
  ELSE s
\* line 17: .replace(/^-+|-+$/g, '')
TrimHyphens(s) == TrimRight(TrimLeft(s))

\* lines 13-18: generateSlug, for a name that is a string
GenerateSlug(name) == TrimHyphens(Hyphenate(LowerCase(name).v))

\* one entry of a legacy category file; of its fields the script reads
\* name and url in its guards, the others are copied into the record
LegacyEntry(name, url) == [name |-> name, url |-> url]

\* the names "A b", "a-b", " Ab!" and "!!", a number as name, no name,
\* and an entry without url
LegacyEntries ==
  {LegacyEntry(Str(n), Str(UrlU)) :
     n \in {<<65, 32, 98>>, <<97, 45, 98>>, <<32, 65, 98, 33>>, <<33, 33>>}}
    \cup {LegacyEntry(Num(5), Str(UrlU)), LegacyEntry(Undef, Str(UrlU)),
          LegacyEntry(Str(<<65, 98>>), Undef)}

\* a category file: a YAML sequence of entries, a document that is no
\* sequence, or a file yaml.load rejects
ArrayFile(entries) == [kind |-> "array", entries |-> entries]
LegacyFiles ==
  {ArrayFile(es) : es \in UNION {[1..n -> LegacyEntries] : n \in 0..MaxEntries}}
    \cup {[kind |-> "other", entries |-> <<>>],
          [kind |-> "unparseable", entries |-> <<>>]}

LegacyDirs == UNION {[1..n -> LegacyFiles] : n \in 0..MaxLegacyFiles}

\* lines 68-80: the record written for an entry
SiteData(id, site) == [id |-> id, url |-> site.url, title |-> site.name]

\* line 88: fs.writeFileSync(path.join(siteDir, 'site.yml'), yamlContent)
WriteSiteFile(dir, id, data) ==
  [i \in DOMAIN dir \cup {id} |-> IF i = id THEN data ELSE dir[i]]

NoSiteFiles == [i \in {} |-> SiteData(<<>>, LegacyEntry(Undef, Undef))]

MIdle ==
  /\ mpc = "idle"
  /\ legacy = <<>>
  /\ fileAt = 1
  /\ entryAt = 1
  /\ migrated = NoSiteFiles
  /\ allSites = <<>>
  /\ created = 0

\* lines 32-41: the script has read categories/ and made sites/
MInit ==
  /\ mpc = "migrate"
  /\ legacy \in LegacyDirs
  /\ fileAt = 1
  /\ entryAt = 1
  /\ migrated = NoSiteFiles
  /\ allSites = <<>>
  /\ created = 0

AtFile == mpc = "migrate" /\ fileAt <= Len(legacy)
AtEntry ==
  /\ AtFile
  /\ legacy[fileAt].kind = "array"
  /\ entryAt <= Len(legacy[fileAt].entries)
Site == legacy[fileAt].entries[entryAt]

\* lines 48-51: the document is no array
SkipNonArrayFile ==
  /\ AtFile
  /\ legacy[fileAt].kind = "other"
  /\ fileAt' = fileAt + 1
  /\ entryAt' = 1
  /\ UNCHANGED <<mpc, legacy, migrated, allSites, created>>
  /\ UNCHANGED <<bvars, pvars, cvars, gvars, wvars>>

\* line 46: yaml.load throws and nothing catches it
LoadThrows ==
  /\ AtFile
  /\ legacy[fileAt].kind = "unparseable"
  /\ mpc' = "failed"
  /\ UNCHANGED <<legacy, fileAt, entryAt, migrated, allSites, created>>
  /\ UNCHANGED <<bvars, pvars, cvars, gvars, wvars>>

\* lines 53-91: sites.forEach has visited every entry of the file
NextCategoryFile ==
  /\ AtFile
  /\ legacy[fileAt].kind = "array"
  /\ entryAt > Len(legacy[fileAt].entries)
  /\ fileAt' = fileAt + 1
  /\ entryAt' = 1
  /\ UNCHANGED <<mpc, legacy, migrated, allSites, created>>
  /\ UNCHANGED <<bvars, pvars, cvars, gvars, wvars>>

\* lines 54-57: the entry has no name or no url
SkipInvalidSite ==
  /\ AtEntry
  /\ ~Truthy(Site.name) \/ ~Truthy(Site.url)
  /\ entryAt' = entryAt + 1
  /\ UNCHANGED <<mpc, legacy, fileAt, migrated, allSites, created>>
  /\ UNCHANGED <<bvars, pvars, cvars, gvars, wvars>>

\* line 59: the name is no string, name.toLowerCase is not a function
SlugThrows ==
  /\ AtEntry
  /\ Truthy(Site.name) /\ Truthy(Site.url)
  /\ Site.name.t /= "str"
  /\ mpc' = "failed"
  /\ UNCHANGED <<legacy, fileAt, entryAt, migrated, allSites, created>>
  /\ UNCHANGED <<bvars, pvars, cvars, gvars, wvars>>

\* lines 59-90: the record of the entry is written under its slug
CreateSiteFile ==
  /\ AtEntry
  /\ Truthy(Site.name) /\ Truthy(Site.url)
  /\ Site.name.t = "str"
  /\ migrated' = WriteSiteFile(migrated, GenerateSlug(Site.name),
                               SiteData(GenerateSlug(Site.name), Site))
  /\ allSites' = Append(allSites, [id |-> GenerateSlug(Site.name),
                                   name |-> Site.name])
  /\ entryAt' = entryAt + 1
  /\ UNCHANGED <<mpc, legacy, fileAt, created>>
  /\ UNCHANGED <<bvars, pvars, cvars, gvars, wvars>>

\* line 94: "Migration complete! Created N site files."
MigrationComplete ==
  /\ mpc = "migrate"
  /\ fileAt > Len(legacy)
  /\ created' = Len(allSites)
  /\ mpc' = "done"
  /\ UNCHANGED <<legacy, fileAt, entryAt, migrated, allSites>>
  /\ UNCHANGED <<bvars, pvars, cvars, gvars, wvars>>

MNext ==
  \/ SkipNonArrayFile
  \/ LoadThrows
  \/ NextCategoryFile
  \/ SkipInvalidSite
  \/ SlugThrows
  \/ CreateSiteFile
  \/ MigrationComplete

(* ------------------------------------------------------------------ *)
(* Specifications                                                      *)
(* ------------------------------------------------------------------ *)
\* builds of one store snapshot
BuildInit == BInit /\ web = AbsentDir /\ PIdle /\ CIdle /\ GIdle
  /\ WIdle /\ MIdle
Spec == BuildInit /\ [][BNext]_vars

\* one run of the publisher
PublishInit == BIdle /\ dist \in SourceDirs /\ PInit /\ CIdle /\ GIdle
  /\ WIdle /\ MIdle
SpecPublish == PublishInit /\ [][PNext]_vars

\* one page load of the client
ClientInit ==
  BIdle /\ dist = AbsentDir /\ web \in ClientDirs /\ PIdle /\ CInit /\ GIdle
  /\ WIdle /\ MIdle
SpecClient == ClientInit /\ [][CNext]_vars

\* the submissions of one pull request
GateInit == BIdle /\ dist = AbsentDir /\ web = AbsentDir /\ PIdle /\ CIdle /\ GInit
  /\ WIdle /\ MIdle
SpecGate == GateInit /\ [][GNext]_vars

\* the record directory sites/<site-id>/ of the pull request's branch as
\* the builder reads it: the generated record, or what yaml.load makes of
\* a URL-only file (undefined for a file without text, a string otherwise)
GeneratedRecord(url) ==
  MapRec(Str(<<115>>), Str(url), Str(Tools), LocaleMap(Str(Alpha)),
         LocaleMap(Str(Beta)), List(<<>>), Str(Solid), NoList)
BranchRecord(file) ==
  IF file.kind = "record" THEN GeneratedRecord(file.text)
  ELSE IF \A k \in 1..Len(file.text) : file.text[k] = 10 THEN Other("empty")
  ELSE Other("scalar")

\* the record directories the branch holds besides the submitted one
BranchStores ==
  {<<>>,
   <<Other("nofile")>>,
   <<Other("unparseable")>>,
   <<MapRec(Str(<<97>>), Str(UrlU), Str(Tools), NoMap, NoMap, NoList,
            Str(Niche), NoList)>>,
   <<MapRec(Str(<<98>>), Str(UrlU), Str(Tools), NoMap, NoMap, NoList,
            Str(Solid), NoList),
     MapRec(Str(<<97>>), Str(UrlU), Str(Tools), LocaleMap(Num(5)), NoMap,
            NoList, Str(Solid), NoList)>>}

\* "Build indexes on each push": the builder is started on a checkout of
\* the pull request's branch
BuildBranch ==
  /\ bpc = "idle"
  /\ gpc /= "idle"
  /\ \E others \in BranchStores :
       /\ store' = Append(others, BranchRecord(prFile))
       /\ bpc' = "load"
  /\ UNCHANGED <<dist, idx, sites, categories, categoriesData, warnings,
                 errors, failure, run, prevDist, prevEnd>>
  /\ UNCHANGED <<pvars, cvars, gvars, wvars, mvars>>

SNext ==
  \/ ValidationPasses
  \/ ValidationFails
  \/ Generate
  \/ GenerateDeclines
  \/ CommitAndApprove
  \/ Resubmit
  \/ BuildBranch
  \/ SkipMissingFile
  \/ CatchRecordError
  \/ SkipInvalidRecord
  \/ AddSite
  \/ SortSites
  \/ SortSitesThrows
  \/ BuildCategories
  \/ WriteCategories
  \/ WriteSites
  \/ WriteFails
  \/ Rerun

\* the submissions of one pull request, and a build of its branch
SubmitBuildInit ==
  BIdle /\ dist = AbsentDir /\ web = AbsentDir /\ PIdle /\ CIdle /\ GInit
  /\ WIdle /\ MIdle
SpecSubmitBuild == SubmitBuildInit /\ [][SNext]_vars

\* the workflow runs of one pull request with a pending list
PendingInit ==
  BIdle /\ dist = AbsentDir /\ web = AbsentDir /\ PIdle /\ CIdle /\ GIdle
  /\ WInit /\ MIdle
SpecPending == PendingInit /\ [][WNext]_vars

\* one run of the migration tool
MigrateInit ==
  BIdle /\ dist = AbsentDir /\ web = AbsentDir /\ PIdle /\ CIdle /\ GIdle
  /\ WIdle /\ MInit
SpecMigrate == MigrateInit /\ [][MNext]_vars

(* ------------------------------------------------------------------ *)
(* Properties of the Index Builder                                     *)
(* ------------------------------------------------------------------ *)
Dirs == 1..Len(store)
Flat == dist.sites.entries
Listed == dist.categories.categories
BuildEnded == bpc \in {"done", "failed"}
\* the build has ended and the output location took every write
EndedWritable == BuildEnded /\ failure /= "write"
ValidDirs == {k \in Dirs : LoadOutcome(store[k]) = "valid"}
Count(seq, P(_)) == Cardinality({j \in 1..Len(seq) : P(seq[j])})
RECURSIVE SumCounts(_)
SumCounts(list) ==
  IF list = <<>> THEN 0 ELSE Head(list).count + SumCounts(Tail(list))

\* BuildCategories is never stuck on a throwing comparator
CategorySortIsSafe == bpc = "cats" => ~SortedCategories.thrown

\* the quality ranks the specification states
StatedRank(q) ==
  IF q = Str(Exceptional) THEN 0 ELSE IF q = Str(Niche) THEN 2 ELSE 1
\* string order as the builder's own comparison computes it
Before(x, y) == Collate(ToStr(x), ToStr(y)) < 0
NotAfter(x, y) == Collate(ToStr(x), ToStr(y)) <= 0

\* C1: in the flat entity document entries of different categories are in
\* ascending category order; within a category exceptional precedes solid,
\* which precedes niche; within a category and quality titles ascend; and
\* the store {A, B, C} of the scenario comes out as C, A, B.
C1_SortOrder ==
  bpc = "done" =>
    /\ \A i, j \in 1..Len(Flat) :
         i < j =>
           IF Flat[i].category /= Flat[j].category
           THEN Before(Flat[i].category, Flat[j].category)
           ELSE /\ StatedRank(Flat[i].quality) <= StatedRank(Flat[j].quality)
                /\ StatedRank(Flat[i].quality) = StatedRank(Flat[j].quality)
                     => NotAfter(Flat[i].title, Flat[j].title)
    /\ store = ScenarioStore =>
         [j \in 1..Len(Flat) |-> Flat[j].id]
           = <<Str(<<99>>), Str(<<97>>), Str(<<98>>)>>

\* C2: whatever one record holds, a build whose output location is
\* writable completes, writes both documents, and every record that passed
\* validation is in the flat document.
C2_PartialFailureTolerance ==
  EndedWritable =>
    /\ bpc = "done"
    /\ dist.categories = CategoriesFile(categoriesData)
    /\ dist.sites.kind = "json"
    /\ \A k \in ValidDirs : \E j \in 1..Len(Flat) : Flat[j] = SiteEntry(store[k])

\* a record that parses and has a non-empty id, url and category
HasRequired(rec) ==
  /\ rec.kind = "map"
  /\ Truthy(rec.id) /\ Truthy(rec.url) /\ Truthy(rec.category)
UniqueIds ==
  \A k, l \in Dirs :
    (k /= l /\ store[k].kind = "map" /\ store[l].kind = "map"
       /\ store[k].id /= Undef) => store[k].id /= store[l].id

\* C3: with unique ids, every record that parses and has a non-empty id,
\* url and category is in sites-en.json exactly once, with its id, url and
\* category unchanged.
C3_ValidRecordAppearsOnce ==
  (EndedWritable /\ UniqueIds) =>
    \A k \in Dirs :
      HasRequired(store[k]) =>
        /\ Count(Flat, LAMBDA e : e.id = store[k].id) = 1
        /\ \A j \in 1..Len(Flat) :
             Flat[j].id = store[k].id =>
               /\ Flat[j].url = store[k].url
               /\ Flat[j].category = store[k].category

\* a record that lacks id, url or category (a mapping or a bare scalar)
LacksRequired(rec) ==
  /\ rec.kind \in {"map", "scalar"}
  /\ ~Truthy(rec.id) \/ ~Truthy(rec.url) \/ ~Truthy(rec.category)

\* C4: a record that lacks id, url or category gets a warning, adds no
\* entry to the flat document and nothing to any count or to totalSites,
\* and the build still completes.
C4_InvalidRecordExcluded ==
  (EndedWritable /\ \E k \in Dirs : LacksRequired(store[k])) =>
    /\ bpc = "done"
    /\ \A k \in Dirs : LacksRequired(store[k]) => k \in warnings
    /\ Len(Flat) = Cardinality({k \in Dirs : HasRequired(store[k])})
    /\ dist.categories.totalSites = Len(Flat)
    /\ SumCounts(Listed) = Len(Flat)

\* C5: in categories.json each listed count is the number of flat entries
\* whose category is exactly that name, and the counts add up to
\* totalSites, the length of the flat document.
C5_CategoryCounts ==
  bpc = "done" =>
    /\ \A k \in 1..Len(Listed) :
         Listed[k].count = Count(Flat, LAMBDA e : e.category = Listed[k].name)
    /\ SumCounts(Listed) = dist.categories.totalSites
    /\ dist.categories.totalSites = Len(Flat)

\* two categories that differ in case only are listed apart, one site each
C5_Witness ==
  /\ bpc = "done"
  /\ \E k, l \in 1..Len(Listed) :
       /\ Listed[k].name = Str(<<65>>) /\ Listed[k].count = 1
       /\ Listed[l].name = Str(<<97>>) /\ Listed[l].count = 1

NoEn(m) == ~m.present \/ m.en = Undef
StatedTitle(rec) == IF NoEn(rec.title) THEN rec.id ELSE rec.title.en
StatedDescription(rec) ==
  IF NoEn(rec.description) THEN Str(<<>>) ELSE rec.description.en
\* the record's 'en' texts are absent or non-empty, the cases C7 speaks of
EnStated(rec) ==
  /\ NoEn(rec.title) \/ Truthy(rec.title.en)
  /\ NoEn(rec.description) \/ Truthy(rec.description.en)

\* C7: the flat document holds, for every valid record, an entry with the
\* record's id whose title is the 'en' title, or the id when there is no
\* 'en' title, and whose description is the 'en' description, or the empty
\* string when there is none (as many such entries as such records).
C7_LocaleFallback ==
  bpc = "done" =>
    \A k \in ValidDirs :
      EnStated(store[k]) =>
        Count(Flat, LAMBDA e : /\ e.id = store[k].id
                               /\ e.title = StatedTitle(store[k])
                               /\ e.description = StatedDescription(store[k]))
          = Cardinality({l \in ValidDirs :
                           /\ store[l].id = store[k].id
                           /\ StatedTitle(store[l]) = StatedTitle(store[k])
                           /\ StatedDescription(store[l])
                                = StatedDescription(store[k])})

\* a record whose maps hold other locales only came out with its id as
\* title, next to a record whose 'en' texts came out as they are
C7_Witness ==
  /\ bpc = "done"
  /\ \E k, l \in ValidDirs :
       /\ store[k].title = LocaleMap(Undef)
       /\ store[k].description = LocaleMap(Undef)
       /\ store[l].title.present /\ Truthy(store[l].title.en)
       /\ store[l].description.present /\ Truthy(store[l].description.en)
       /\ \E i, j \in 1..Len(Flat) :
            /\ Flat[i].id = store[k].id /\ Flat[i].title = store[k].id
            /\ Flat[i].description = Str(<<>>)
            /\ Flat[j].title = store[l].title.en
            /\ Flat[j].description = store[l].description.en

\* C8: the build fails only when the output location cannot be written.
C8_FailsOnlyOnWrite == bpc = "failed" => failure = "write"

(* ------------------------------------------------------------------ *)
(* Properties of the Index Publisher                                   *)
(* ------------------------------------------------------------------ *)
PublishEnded == ppc \in {"done", "failed"}

\* C9: the publisher ends in success exactly when no source document is
\* missing, at least one file was copied, and every destination file is
\* there and parses as JSON; in every other case it has thrown, and once
\* it has thrown it takes no further step.
C9_PublisherAborts ==
  /\ PublishEnded =>
       (ppc = "done") =
         (/\ \A f \in {"categories", "sites"} :
               dist[f].kind /= "absent" /\ web[f].kind = "json"
          /\ copiedCount /= 0)
  /\ ppc = "done" => thrown = "none"
  /\ ppc = "failed" => thrown /= "none" /\ ~ENABLED PNext

\* the publisher threw on a missing sites-en.json after it had copied
\* categories.json
C9_Witness ==
  /\ ppc = "failed" /\ thrown = "missing"
  /\ copiedCount = 1
  /\ dist.sites.kind = "absent"

(* ------------------------------------------------------------------ *)
(* Properties of the Client Renderer                                   *)
(* ------------------------------------------------------------------ *)
\* C10: state.view is 'categories' or 'sites' and starts as 'categories';
\* a select finds it 'categories' and leaves it 'sites', a back leaves it
\* 'categories', and no other step changes it.
C10_ViewStateMachine ==
  /\ [](/\ view \in {CategoriesView, SitesView}
        /\ lastEvent = "none" => view = CategoriesView)
  /\ [][/\ lastEvent' = "select" => view = CategoriesView /\ view' = SitesView
        /\ lastEvent' = "back" => view' = CategoriesView
        /\ lastEvent' \notin {"select", "back"} => view' = view]_vars

LoadFailed == cpc = "error"
\* the parts of the page that show a view
ViewParts == <<view, category, categoriesDisplay, sitesDisplay, cards, sitesList>>

\* C11: once a fetch has failed the one error message is shown, and from
\* then on no event renders or shows the categories view or the entries
\* view or changes the view state.
C11_FetchFailureTerminal ==
  /\ [](LoadFailed => errorDisplay = "block" /\ errorText /= ""
                        /\ loadingDisplay = "none")
  /\ [][LoadFailed => UNCHANGED ViewParts]_vars

(* ------------------------------------------------------------------ *)
(* Properties of the submission gate                                   *)
(* ------------------------------------------------------------------ *)
AiInvoked == gpc \in {"generated", "declined", "approved"}

\* C12: AI generation is invoked on a submission only after the format
\* validation of that same submission has run and passed; a submission
\* that failed validation stays as it was submitted and no AI step is
\* ever invoked on it.
C12_ValidationBeforeAI ==
  /\ [](/\ AiInvoked => formatCheck = "passed" /\ submission \in aiInputs
        /\ formatCheck = "failed" =>
             /\ gpc = "rejected"
             /\ submission \notin aiInputs
             /\ prFile = UrlFile(submission))
  /\ [][/\ (AiInvoked' /\ ~AiInvoked) => formatCheck = "passed"
        /\ aiInputs' /= aiInputs =>
             formatCheck = "passed" /\ aiInputs' = aiInputs \cup {submission}
        /\ formatCheck = "failed" =>
             \/ UNCHANGED <<aiInputs, formatCheck, prFile, submission>>
             \/ attempt' = attempt + 1]_vars

\* the second submission of a pull request was rejected after AI
\* generation had run on the first, which had passed validation
C12_Witness ==
  /\ gpc = "rejected" /\ attempt = 2
  /\ aiInputs /= {}
  /\ submission \notin aiInputs
  /\ prFile = UrlFile(submission)

\* the contents that are one line holding one absolute http or https URL
\* of at most 200 characters
OneUrlLine ==
  { ExampleUrl \o <<10>>,
    ExampleUrl,
    <<104, 116, 116, 112, 58, 47, 47, 101, 120, 97, 109, 112, 108, 101, 46, 99, 111, 109>> \o <<10>>,
    <<72, 84, 84, 80, 83, 58, 47, 47, 69, 120, 97, 109, 112, 108, 101, 46, 99, 111, 109>> \o <<10>>,
    HttpsPrefix \o Padding(192) \o <<10>> }

Entries == IF sitesData.kind = "json" THEN sitesData.entries ELSE <<>>

\* C14: every catalog text in the rendered markup is the escaped form of
\* the text: the name of a category in the heading and in the
\* data-category attribute of its card, and url, title, description,
\* quality and lenses in a site card.
C14_AllTextEscaped ==
  /\ \A k \in 1..Len(cards) :
       /\ cards[k].heading = EscapeHtml(cards[k].name)
       /\ cards[k].attribute = EscapeHtml(cards[k].name)
  /\ \A k \in 1..Len(sitesList) :
       \E j \in 1..Len(Entries) :
         /\ sitesList[k].href = EscapeHtml(Entries[j].url)
         /\ sitesList[k].url = EscapeHtml(Entries[j].url)
         /\ sitesList[k].title = EscapeHtml(Entries[j].title)
         /\ sitesList[k].description = EscapeHtml(Entries[j].description)
         /\ sitesList[k].qualityClass = EscapeHtml(Entries[j].quality)
         /\ sitesList[k].quality = EscapeHtml(Entries[j].quality)
         /\ Len(sitesList[k].lenses) = Len(Entries[j].lenses)
         /\ \A l \in 1..Len(Entries[j].lenses) :
              sitesList[k].lenses[l] = EscapeHtml(Str(Entries[j].lenses[l]))

\* the entries of the document whose category is exactly c, in the
\* document's order
OfCategory(c) == SelectSeq(Entries, LAMBDA e : e.category = c)

\* C15: in the entries view for category c the rendered site cards are
\* the cards of exactly the entries of the flat document whose category
\* equals c, in the document's order, under the title c.
C15_ExactCategoryFilter ==
  (view = SitesView /\ sitesData.kind = "json") =>
    /\ categoryTitle = category
    /\ Len(sitesList) = Len(OfCategory(category))
    /\ \A k \in 1..Len(sitesList) :
         sitesList[k] = RenderedSite(OfCategory(category)[k])

\* the entries view shows the two sites of Tools, of a document of three,
\* in the document's order
C15_Witness ==
  /\ view = SitesView /\ category = Str(Tools)
  /\ sitesData = FreshSitesFile
  /\ Len(Entries) = 3 /\ Len(sitesList) = 2
  /\ sitesList[1].title = Alpha /\ sitesList[2].title = Zeta

BothLoaded == clientCategories.kind = "json" /\ sitesData.kind = "json"

\* C16: the categories view is shown, and category cards are rendered,
\* only when both documents have been fetched.
C16_RenderAfterBothLoaded ==
  (categoriesDisplay = "grid" \/ cards /= <<>>) => BothLoaded

\* line 30 has run: the categories fetch was issued
CategoriesFetchIssued == cpc /= "idle"
\* line 35 has run: the entities fetch was issued
SitesFetchIssued ==
  \/ cpc \in {"fetchSites", "loaded"}
  \/ cpc = "error" /\ errorText = "sites"
CategoriesFetchFailed == cpc = "error" /\ errorText = "categories"

\* C17: the two fetches are independent: the entities fetch is issued
\* whether or not the categories fetch has completed or succeeded, so once
\* the load has started both fetches are out.
C17_IndependentFetches ==
  /\ CategoriesFetchIssued => SitesFetchIssued
  /\ CategoriesFetchFailed => SitesFetchIssued

\* C17 as the code has it: the entities fetch is issued only after the
\* categories fetch has succeeded and its body has been parsed; while the
\* categories fetch is in flight, and after it has failed, no entities
\* fetch is issued and no entities document is held.
C17_SequentialFetches ==
  /\ SitesFetchIssued => clientCategories.kind = "json"
  /\ sitesData.kind = "json" => clientCategories.kind = "json"
  /\ (cpc = "fetchCategories" \/ CategoriesFetchFailed) =>
       /\ ~SitesFetchIssued
       /\ clientCategories.kind = "absent"
       /\ sitesData.kind = "absent"

\* the categories fetch failed while sites-en.json was there to be served:
\* it was never asked for
C17_Witness ==
  /\ CategoriesFetchFailed
  /\ web.sites.kind = "json"
  /\ sitesData.kind = "absent"
  /\ errorDisplay = "block"

(* ------------------------------------------------------------------ *)
(* Further properties of the Index Publisher                           *)
(* ------------------------------------------------------------------ *)
AbortedOnMissingSource == ppc = "failed" /\ thrown = "missing"

\* C18: when the publisher aborts because a source document is missing,
\* no destination document has been replaced: the serve location does not
\* hold a freshly copied document next to a document of an earlier build.
C18_PublishAllOrNothing ==
  AbortedOnMissingSource =>
    /\ copiedCount = 0
    /\ \A k \in 1..Len(Files) :
         k < fileIdx => web[Files[k]] /= dist[Files[k]]

\* C19: when the publisher has ended in success, categories.json and
\* sites-en.json are at the serve location, each the same as the document
\* at the build-output location and each JSON; and no step of the
\* publisher changes the build-output location.
C19_PublishedCopiesIdentical ==
  /\ [](ppc = "done" =>
          \A f \in {"categories", "sites"} :
            /\ web[f].kind = "json"
            /\ dist[f].kind = "json"
            /\ web[f] = dist[f])
  /\ [][dist' = dist]_vars

\* the documents of a build have replaced those of an earlier build
C19_Witness ==
  /\ ppc = "done" /\ copiedCount = 2
  /\ web.categories = FreshCategoriesFile
  /\ web.sites = FreshSitesFile
  /\ dist = web

(* ------------------------------------------------------------------ *)
(* String order in the Index Builder's sorts                           *)
(* ------------------------------------------------------------------ *)
RECURSIVE CodeUnitCompare(_, _)
\* plain lexicographic comparison of two strings by their code units
CodeUnitCompare(s, u) ==
  IF s = <<>> /\ u = <<>> THEN 0
  ELSE IF s = <<>> THEN -1
  ELSE IF u = <<>> THEN 1
  ELSE IF Head(s) < Head(u) THEN -1
  ELSE IF Head(s) > Head(u) THEN 1
  ELSE CodeUnitCompare(Tail(s), Tail(u))
CodeUnitNotAfter(x, y) == CodeUnitCompare(ToStr(x), ToStr(y)) <= 0

\* C20: the sorts compare strings by plain lexicographic (code-unit)
\* order: the listed category names ascend in that order, the flat
\* entries ascend by category in that order, and entries of one category
\* and one quality ascend by title in that order (an upper-case initial
\* before a lower-case one).
C20_CodeUnitOrder ==
  bpc = "done" =>
    /\ \A i, j \in 1..Len(Listed) :
         i < j => CodeUnitNotAfter(Listed[i].name, Listed[j].name)
    /\ \A i, j \in 1..Len(Flat) :
         i < j =>
           /\ CodeUnitNotAfter(Flat[i].category, Flat[j].category)
           /\ (/\ Flat[i].category = Flat[j].category
               /\ Flat[i].quality = Flat[j].quality)
                => CodeUnitNotAfter(Flat[i].title, Flat[j].title)

(* ------------------------------------------------------------------ *)
(* Projection defaults                                                 *)
(* ------------------------------------------------------------------ *)
StatedQuality(rec) == IF rec.quality = Undef THEN Str(Solid) ELSE rec.quality
StatedLenses(rec) == IF rec.lenses.present THEN rec.lenses.v ELSE <<>>
\* the optional fields of an entry are those stated for the record
DefaultsOf(e, rec) ==
  /\ e.id = rec.id
  /\ e.category = rec.category
  /\ e.quality = StatedQuality(rec)
  /\ e.lenses = StatedLenses(rec)
  /\ e.tags.present = rec.tags.present
  /\ rec.tags.present => e.tags.v = rec.tags.v

\* two records for which the same id, category and optional fields are stated
SameStated(r, rec) ==
  /\ r.id = rec.id
  /\ r.category = rec.category
  /\ StatedQuality(r) = StatedQuality(rec)
  /\ StatedLenses(r) = StatedLenses(rec)
  /\ r.tags.present = rec.tags.present
  /\ rec.tags.present => r.tags.v = rec.tags.v

\* C21: in a completed build every valid record has its entry with quality
\* 'solid' when the record names no quality, with the empty sequence as
\* lenses when the record has none, and with a tags key exactly when the
\* record has tags, then holding the record's tags in the record's order
\* (as many such entries as such records); and the entries of quality
\* 'solid', those of records without quality among them, are ordered as
\* 'solid' ones: by title among themselves within a category, and before
\* the 'niche' entries of the category.
C21_ProjectionDefaults ==
  bpc = "done" =>
    /\ \A k \in ValidDirs :
         Count(Flat, LAMBDA e : DefaultsOf(e, store[k]))
           = Cardinality({l \in ValidDirs : SameStated(store[l], store[k])})
    /\ \A i, j \in 1..Len(Flat) :
         /\ i < j
         /\ Flat[i].category = Flat[j].category
         /\ \E k \in ValidDirs :
              /\ store[k].quality = Undef
              /\ DefaultsOf(Flat[i], store[k]) \/ DefaultsOf(Flat[j], store[k])
         => /\ Flat[j].quality = Str(Solid) /\ Flat[i].quality = Str(Solid)
               => NotAfter(Flat[i].title, Flat[j].title)
            /\ Flat[i].quality /= Str(Niche) \/ Flat[j].quality = Str(Niche)

\* a record with no quality, no lenses and no tags came out between an
\* entry of a 'solid' record and a 'niche' one, or a record with lenses and
\* tags and no quality came out with both lists as they are
C21_Witness ==
  /\ bpc = "done"
  /\ \E k \in ValidDirs :
       /\ store[k].quality = Undef
       /\ \E i \in 1..Len(Flat) :
            /\ DefaultsOf(Flat[i], store[k])
            /\ Flat[i].quality = Str(Solid)
            /\ \/ /\ ~store[k].lenses.present /\ Flat[i].lenses = <<>>
                  /\ ~store[k].tags.present /\ ~Flat[i].tags.present
                  /\ Len(Flat) = 2
                  /\ \E l \in ValidDirs : store[l].quality = Str(Niche)
               \/ /\ store[k].tags.present /\ Flat[i].tags.v = store[k].tags.v
                  /\ Len(store[k].tags.v) = 2
                  /\ store[k].lenses.present
                  /\ Flat[i].lenses = store[k].lenses.v

(* ------------------------------------------------------------------ *)
(* Ids in the generated documents                                      *)
(* ------------------------------------------------------------------ *)
FlatIds == {Flat[j].id : j \in 1..Len(Flat)}

\* C22: after a completed build no two entries of the flat document have
\* the same id, and the counts of the categories document add up to the
\* number of distinct ids (no id is counted twice).
C22_NoDuplicateIds ==
  bpc = "done" =>
    /\ \A i, j \in 1..Len(Flat) : i /= j => Flat[i].id /= Flat[j].id
    /\ SumCounts(Listed) = Cardinality(FlatIds)

(* ------------------------------------------------------------------ *)
(* The categories list                                                 *)
(* ------------------------------------------------------------------ *)
ListedNames == {Listed[j].name : j \in 1..Len(Listed)}

\* C23: after a completed build the categories list ascends strictly by
\* name, no name is listed twice, the listed names are exactly the
\* categories of the valid records, and every count is at least 1.
C23_CategoriesList ==
  bpc = "done" =>
    /\ \A i, j \in 1..Len(Listed) :
         i < j => /\ Before(Listed[i].name, Listed[j].name)
                  /\ Listed[i].name /= Listed[j].name
    /\ ListedNames = {store[k].category : k \in ValidDirs}
    /\ \A j \in 1..Len(Listed) : Listed[j].count >= 1

\* two categories are listed, one of them for two records, and the store
\* holds them in the other order
C23_Witness ==
  /\ bpc = "done"
  /\ Len(Listed) = 2
  /\ \E j \in 1..2 : Listed[j].count = 2
  /\ \E k, l \in ValidDirs : k < l /\ Before(store[l].category, store[k].category)

(* ------------------------------------------------------------------ *)
(* Counts shown and entries displayed                                  *)
(* ------------------------------------------------------------------ *)
\* both documents served to the client come from one build
OneBuild ==
  <<web.categories, web.sites>> \in
    {<<FreshCategoriesFile, FreshSitesFile>>,
     <<StaleCategoriesFile, StaleSitesFile>>,
     <<MarkupCategoriesFile, MarkupSitesFile>>}

\* C24: with both documents of one build loaded, right after a card is
\* selected the sites view lists exactly as many entries as the count
\* shown on that card.
C24_CountMatchesCard ==
  /\ OneBuild
  /\ cpc = "loaded"
  /\ BothLoaded
  /\ lastEvent = "select"
  => \A k \in 1..Len(cards) :
       cards[k].category = category => Len(sitesList) = cards[k].count

(* ------------------------------------------------------------------ *)
(* The client's view state after the load                              *)
(* ------------------------------------------------------------------ *)
Loaded == cpc = "loaded"

\* C25: once both documents are loaded, state.category is null exactly
\* when state.view is 'categories'; the categories container alone is
\* visible in the 'categories' view and the sites container alone in the
\* 'sites' view; the 'sites' view is entered by a select only, with
\* state.category the category of the selected card, and state.category
\* stays that value while the view is 'sites'.
C25_ClientStateInvariant ==
  /\ [](Loaded =>
          /\ category = Undef <=> view = CategoriesView
          /\ view \in {CategoriesView, SitesView}
          /\ view = CategoriesView =>
               categoriesDisplay = "grid" /\ sitesDisplay = "none"
          /\ view = SitesView =>
               categoriesDisplay = "none" /\ sitesDisplay = "block")
  /\ [][Loaded /\ view' = SitesView =>
          IF view = SitesView THEN category' = category
          ELSE /\ lastEvent' = "select"
               /\ \E k \in 1..Len(cards) :
                    category' = DatasetCategory([name |-> cards[k].name])]_vars

\* after the load the card of Tools was selected and its two entries are
\* listed
C25_Witness ==
  /\ Loaded
  /\ lastEvent = "select"
  /\ view = SitesView
  /\ category = Str(Tools)
  /\ Len(sitesList) = 2

(* ------------------------------------------------------------------ *)
(* Consumption of the pending list                                     *)
(* ------------------------------------------------------------------ *)
PendingUrls == {pending.lines[k] : k \in 1..Len(pending.lines)}

UrlOnly(rec) == rec = Other("scalar")

\* C27: at every point of the submission workflow the site.yml of the
\* pull request is a complete record, and no build ever reads a site.yml
\* that holds only a URL line.
C27_SitesAlwaysComplete ==
  /\ gpc /= "idle" => prFile.kind = "record"
  /\ \A k \in Dirs : ~UrlOnly(store[k])

\* what does hold of the per-entity form: the site.yml of the pull request
\* holds the submitted URL-only content until the generated record is
\* committed and is a complete record exactly once the submission has
\* passed validation and generation; a build that reads a site.yml holding
\* only a URL line logs a warning for it, makes no entry for it and goes
\* on to the next record directory, and a completed build has as many
\* entries, and counts as many, as there are valid records.
UrlFileUntilCommitted ==
  /\ [](/\ prFile.kind = "record" <=> gpc = "approved"
        /\ prFile.kind = "record" =>
             /\ formatCheck = "passed"
             /\ submission \in aiInputs
             /\ prFile = GeneratedFile(submission)
        /\ prFile.kind = "url" => prFile = UrlFile(submission)
        /\ bpc = "done" =>
             /\ Len(Flat) = Cardinality(ValidDirs)
             /\ dist.categories.totalSites = Cardinality(ValidDirs)
             /\ \A k \in Dirs : UrlOnly(store[k]) =>
                  k \in warnings /\ k \notin ValidDirs)
  /\ [][bpc = "load" /\ UrlOnly(store[idx]) /\ bvars' /= bvars =>
          /\ warnings' = warnings \cup {idx}
          /\ idx' = idx + 1
          /\ bpc' = AfterLoad(idx + 1)
          /\ UNCHANGED <<sites, categories, errors, failure, dist>>]_vars

\* a build of the branch met the URL-only file of a submission that has
\* passed the validation, warned about it and completed with the one
\* entry of the other record
UrlFileMetByBuild ==
  /\ gpc = "validated"
  /\ prFile = UrlFile(submission)
  /\ bpc = "done"
  /\ Len(store) = 2
  /\ UrlOnly(store[2])
  /\ warnings = {2}
  /\ Len(Flat) = 1

(* ------------------------------------------------------------------ *)
(* Site ids of the migration                                           *)
(* ------------------------------------------------------------------ *)
\* a non-empty id of [a-z0-9-] without a hyphen at either end
WellFormedId(id) ==
  /\ id /= <<>>
  /\ \A k \in 1..Len(id) : IsSlugUnit(id[k]) \/ id[k] = 45
  /\ id[1] /= 45 /\ id[Len(id)] /= 45

\* C28: after a completed migration every created id is non-empty, of
\* [a-z0-9-] with no hyphen at either end, entries of different names have
\* different ids (no record was written over another), and the number
\* reported as created is the number of site.yml files under sites/.
C28_DistinctSiteIds ==
  mpc = "done" =>
    /\ \A j \in 1..Len(allSites) : WellFormedId(allSites[j].id)
    /\ \A i, j \in 1..Len(allSites) :
         allSites[i].name /= allSites[j].name =>
           allSites[i].id /= allSites[j].id
    /\ created = Cardinality(DOMAIN migrated)

====
